---------------------------- MODULE Spec2Model ----------------------------
(***************************************************************************)
(* A model of the remo Python client (src/remo/api.py): the UploadStatus   *)
(* progress tracker, BaseAPI (login, auth header, get/post, _build_url)    *)
(* and API.bulk_upload_files with split_files_by_size and the              *)
(* ThreadPoolExecutor(1) that runs upload_files once per batch.            *)
(*                                                                         *)
(* Python strings are modelled as sequences of one-character strings, so   *)
(* that strip, split, join, quote and the substring test are computed.     *)
(***************************************************************************)
EXTENDS Integers, Sequences, FiniteSets, TLC

VARIABLES
    files,      \* split_files_by_size / bulk_upload_files: the resolved file list
    fsize,      \* the file system: path -> byte size (os.path.getsize)
    groups,     \* the batches returned by split_files_by_size
    splitDone,  \* split_files_by_size has returned (stand-alone call)
    status,     \* the UploadStatus object
    trace,      \* the calls made on the UploadStatus object, in order
    urlIn,      \* _build_url: the call's args, kwargs and tail_slash
    urlOut,     \* _build_url: the returned url
    urlDone,    \* _build_url has returned
    clientPc,   \* BaseAPI.__init__: "new", "ready" (returned) or "failed" (raised)
    token,      \* self.token
    ctorError,  \* what __init__ raised: <<>> or <<response body>>
    loginSeen,  \* what the login request met: <<>> before it, then <<outcome>>
    requests,   \* every HTTP request handed to the requests library, in order
    callLog,    \* the API calls that have returned or raised, with the outcome
    bulkPc,     \* bulk_upload_files: "idle", "running" or "returned"
    tasks,      \* the executor's task per batch: pc, response status, exception
    completed,  \* the batches whose task has ended, in the order they ended
    resultsIter \* the caller's reading of the returned result iterator

splitVars == <<files, fsize, groups, splitDone>>
statusVars == <<status, trace>>
urlVars == <<urlIn, urlOut, urlDone>>
clientVars == <<clientPc, token, ctorError, loginSeen, requests, callLog>>
bulkVars == <<bulkPc, tasks, completed, resultsIter>>

vars == <<splitVars, statusVars, urlVars, clientVars, bulkVars>>

None == "None"

(***************************************************************************)
(* Bounds of the model.                                                    *)
(***************************************************************************)
MaxFiles == 4
MaxTotal == 4   \* SpecStatus: the largest total_count
MaxCount == 2   \* SpecStatus: the largest count given to update
MaxCalls == 5   \* SpecStatus: the number of calls made on the tracker
MaxParams == 2  \* SpecUrl: the number of query parameters passed
MaxDirect == 1  \* Spec: the number of get/post calls made besides the upload

\* No client exists: the value of the client's and the upload's variables in
\* the specifications of the pure functions.
ClientUnused ==
    /\ clientPc = "new"
    /\ token = None
    /\ ctorError = <<>>
    /\ loginSeen = <<>>
    /\ requests = <<>>
    /\ callLog = <<>>
    /\ bulkPc = "idle"
    /\ tasks = <<>>
    /\ completed = <<>>
    /\ resultsIter = [pos |-> 0, raised |-> "none"]

(***************************************************************************)
(* API.split_files_by_size                                                 *)
(***************************************************************************)
bulk_size == 8 * 1024 * 1024

\* Byte sizes the files may have: empty, half a batch, one byte under, exactly
\* and one byte over the batch size.
Sizes == {0, bulk_size \div 2, bulk_size - 1, bulk_size, bulk_size + 1}

getsize(path) == fsize[path]

SplitStart == [groups |-> <<>>, bulk |-> <<>>, total_size |-> 0]

CloseBatchStrict(total_size) == total_size > bulk_size

\* api.py:251  if total_size >= bulk_size
CloseBatch(total_size) == total_size >= bulk_size

SplitStepCloseBefore(st, path) ==
    IF CloseBatch(st.total_size + getsize(path)) /\ Len(st.bulk) > 0
    THEN [groups |-> Append(st.groups, st.bulk),
          bulk |-> <<path>>,
          total_size |-> getsize(path)]
    ELSE [groups |-> st.groups,
          bulk |-> Append(st.bulk, path),
          total_size |-> st.total_size + getsize(path)]

\* One iteration of the loop api.py:248-254.
SplitStep(st, path) ==
    LET total == st.total_size + getsize(path)
        bulk  == Append(st.bulk, path)
    IN  IF CloseBatch(total)
        THEN [groups |-> Append(st.groups, bulk), bulk |-> <<>>, total_size |-> 0]
        ELSE [groups |-> st.groups, bulk |-> bulk, total_size |-> total]

RECURSIVE SplitLoop(_, _, _)
SplitLoop(st, fs, i) ==
    IF i > Len(fs) THEN st ELSE SplitLoop(SplitStep(st, fs[i]), fs, i + 1)

SplitFlushNever(st) == st.groups

\* api.py:256-258  if len(bulk): groups.append(bulk); return groups
SplitFlush(st) ==
    IF Len(st.bulk) > 0 THEN Append(st.groups, st.bulk) ELSE st.groups

split_files_by_size(fs) == SplitFlush(SplitLoop(SplitStart, fs, 1))

(***************************************************************************)
(* Helpers to state properties of a list of batches.                       *)
(***************************************************************************)
RECURSIVE Flatten(_)
Flatten(gs) == IF gs = <<>> THEN <<>> ELSE Head(gs) \o Flatten(Tail(gs))

RECURSIVE SizeSum(_)
SizeSum(b) == IF b = <<>> THEN 0 ELSE getsize(Head(b)) + SizeSum(Tail(b))

Front(s) == SubSeq(s, 1, Len(s) - 1)

\* The positions <<g, k>> at which path p occurs in the batches gs.
Occurrences(gs, p) ==
    {gk \in UNION {{<<g, k>> : k \in 1..Len(gs[g])} : g \in 1..Len(gs)} :
        gs[gk[1]][gk[2]] = p}

(***************************************************************************)
(* SpecSplit: split_files_by_size applied to every list of up to MaxFiles  *)
(* distinct paths, with every assignment of sizes.                         *)
(***************************************************************************)
FileLists == {[i \in 1..n |-> i] : n \in 0..MaxFiles}

InitSplit ==
    /\ files \in FileLists
    /\ fsize \in [1..Len(files) -> Sizes]
    /\ groups = <<>>
    /\ splitDone = FALSE
    /\ status = None
    /\ trace = <<>>
    /\ urlIn = None
    /\ urlOut = <<>>
    /\ urlDone = FALSE
    /\ ClientUnused

SplitCall ==
    /\ ~splitDone
    /\ groups' = split_files_by_size(files)
    /\ splitDone' = TRUE
    /\ UNCHANGED <<files, fsize, statusVars, urlVars, clientVars, bulkVars>>

NextSplit == SplitCall

SpecSplit == InitSplit /\ [][NextSplit]_vars

\* C1: the batches returned by split_files_by_size, concatenated in order, are
\* the input list; every input file occurs in exactly one batch position; no
\* batch is empty.
C1_Partition ==
    splitDone =>
        /\ Flatten(groups) = files
        /\ \A p \in 1..Len(files) : Cardinality(Occurrences(groups, files[p])) = 1
        /\ \A g \in 1..Len(groups) : Len(groups[g]) > 0

C1_Witness ==
    /\ splitDone
    /\ Len(files) >= 3
    /\ Len(groups) >= 2
    /\ Len(groups[Len(groups)]) >= 1
    /\ SizeSum(groups[Len(groups)]) < bulk_size

Oversized(p) == getsize(p) > bulk_size

BatchOf(p) == (CHOOSE gk \in Occurrences(groups, p) : TRUE)[1]

\* C2 as stated: a file larger than bulk_size is alone in its batch, whatever
\* precedes or follows it.
C2_OversizedAlone ==
    splitDone =>
        \A i \in 1..Len(files) :
            Oversized(files[i]) => groups[BatchOf(files[i])] = <<files[i]>>

\* C2 amended: a file larger than bulk_size is the last file of its batch (it
\* closes the batch, no later file joins it), and it is alone in that batch
\* exactly when no earlier file is still accumulated, that is when it is the
\* first input file or the file before it closed a batch.
C2_OversizedClosesBatch ==
    splitDone =>
        \A i \in 1..Len(files) :
            Oversized(files[i]) =>
                LET b == groups[BatchOf(files[i])]
                IN  /\ b[Len(b)] = files[i]
                    /\ (Len(b) = 1) <=>
                           \/ i = 1
                           \/ LET pb == groups[BatchOf(files[i - 1])]
                              IN  /\ pb[Len(pb)] = files[i - 1]
                                  /\ SizeSum(pb) >= bulk_size

C2_Witness ==
    /\ splitDone
    /\ \E i \in 2..(Len(files) - 1) :
          /\ Oversized(files[i])
          /\ Len(groups[BatchOf(files[i])]) >= 2
          /\ BatchOf(files[i + 1]) = BatchOf(files[i]) + 1

\* C3: every batch but the last has a total size >= bulk_size, and every batch
\* without its last file has a total size < bulk_size: a batch is closed by
\* the first file with which the running sum reaches bulk_size.
C3_ClosedAtThreshold ==
    splitDone =>
        \A g \in 1..Len(groups) :
            /\ SizeSum(Front(groups[g])) < bulk_size
            /\ g < Len(groups) => SizeSum(groups[g]) >= bulk_size

C3_Witness ==
    /\ splitDone
    /\ Len(groups) >= 2
    /\ Len(groups[1]) >= 2
    /\ SizeSum(groups[1]) = bulk_size
    /\ SizeSum(groups[Len(groups)]) < bulk_size

(***************************************************************************)
(* UploadStatus (api.py:13-39).  start and the elapsed time, speed and ETA *)
(* derived from it only feed the printed text and are left out; a report   *)
(* is recorded in the trace with the percentage it prints.                 *)
(***************************************************************************)
UploadStatusNew(total_count) ==
    [total_count |-> total_count, current_count |-> 0, reported_progress |-> 0]

updateAssign(st, count) == [st EXCEPT !.current_count = count]

\* api.py:20-21
update(st, count) == [st EXCEPT !.current_count = @ + count]

\* api.py:24  int(self.current_count / self.total_count * 100).  The float
\* quotient times 100, truncated, equals the exact integer quotient for every
\* total_count <= 12 with current_count <= 2 * total_count (computed with
\* CPython), which covers the totals of this model.
Percentage(st) == (st.current_count * 100) \div st.total_count

ProgressEmitsOnEqual(st, percentage) == percentage >= st.reported_progress

\* api.py:25  if percentage > self.reported_progress
ProgressEmits(st, percentage) == percentage > st.reported_progress

\* api.py:39  self.reported_progress = percentage (outside the if)
ProgressStore(st, percentage) == [st EXCEPT !.reported_progress = percentage]

UpdateEvent(task, count) == [op |-> "update", task |-> task, n |-> count]

ProgressEvent(task, st) ==
    [op |-> "progress", task |-> task,
     emitted |-> ProgressEmits(st, Percentage(st)),
     percentage |-> Percentage(st)]

(***************************************************************************)
(* SpecStatus: any sequence of up to MaxCalls update(n), n >= 0, and       *)
(* progress() calls on one UploadStatus.                                   *)
(***************************************************************************)
InitStatus ==
    /\ files = <<>>
    /\ fsize = <<>>
    /\ groups = <<>>
    /\ splitDone = FALSE
    /\ \E total \in 1..MaxTotal : status = UploadStatusNew(total)
    /\ trace = <<>>
    /\ urlIn = None
    /\ urlOut = <<>>
    /\ urlDone = FALSE
    /\ ClientUnused

StatusUpdate(count) ==
    /\ Len(trace) < MaxCalls
    /\ status' = update(status, count)
    /\ trace' = Append(trace, UpdateEvent(0, count))
    /\ UNCHANGED <<splitVars, urlVars, clientVars, bulkVars>>

StatusProgress ==
    /\ Len(trace) < MaxCalls
    /\ status' = ProgressStore(status, Percentage(status))
    /\ trace' = Append(trace, ProgressEvent(0, status))
    /\ UNCHANGED <<splitVars, urlVars, clientVars, bulkVars>>

NextStatus ==
    \/ \E count \in 0..MaxCount : StatusUpdate(count)
    \/ StatusProgress

SpecStatus == InitStatus /\ [][NextStatus]_vars

(***************************************************************************)
(* The trace, read back without the tracker's own fields.                  *)
(***************************************************************************)
RECURSIVE CountBefore(_)
\* the sum of the counts of the update calls among the first i calls
CountBefore(i) ==
    IF i = 0 THEN 0
    ELSE CountBefore(i - 1) + (IF trace[i].op = "update" THEN trace[i].n ELSE 0)

\* floor(current_count / total_count * 100) at the i-th call
FloorPercent(i) == (CountBefore(i) * 100) \div status.total_count

ProgressCalls == {i \in 1..Len(trace) : trace[i].op = "progress"}

\* the percentage computed by the last progress() before the i-th call, or the
\* initial 0
LastPercent(i) ==
    LET before == {j \in ProgressCalls : j < i}
    IN  IF before = {} THEN 0
        ELSE FloorPercent(CHOOSE j \in before : \A k \in before : k <= j)

Emitted == {i \in ProgressCalls : trace[i].emitted}

C9_EmitRule ==
    /\ \A i \in ProgressCalls :
          /\ trace[i].percentage = FloorPercent(i)
          /\ trace[i].emitted <=> FloorPercent(i) > LastPercent(i)
    /\ status.reported_progress = LastPercent(Len(trace) + 1)
    /\ \A i, j \in Emitted : i < j => trace[i].percentage < trace[j].percentage

PyNone == [t |-> "none", i |-> 0, s |-> <<>>, l |-> <<>>]
PyInt(n) == [t |-> "int", i |-> n, s |-> <<>>, l |-> <<>>]
PyStr(str) == [t |-> "str", i |-> 0, s |-> str, l |-> <<>>]
PyList(list) == [t |-> "list", i |-> 0, s |-> <<>>, l |-> list]

Digits == <<"0", "1", "2", "3", "4", "5", "6", "7", "8", "9">>

RECURSIVE IntStr(_)
\* str(n) of an int n >= 0
IntStr(n) ==
    IF n < 10 THEN <<Digits[n + 1]>>
    ELSE IntStr(n \div 10) \o <<Digits[(n % 10) + 1]>>

\* str(x)
Str(val) ==
    CASE val.t = "str" -> val.s
      [] val.t = "int" -> IntStr(val.i)
      [] val.t = "none" -> <<"N", "o", "n", "e">>
      [] val.t = "list" -> <<"[">> \o <<"]">>

RECURSIVE LStrip(_, _)
LStrip(str, c) ==
    IF str # <<>> /\ Head(str) = c THEN LStrip(Tail(str), c) ELSE str

RECURSIVE RStrip(_, _)
RStrip(str, c) ==
    IF str # <<>> /\ str[Len(str)] = c THEN RStrip(Front(str), c) ELSE str

\* str.strip(c)
Strip(str, c) == RStrip(LStrip(str, c), c)

RECURSIVE Join(_, _)
\* sep.join(parts)
Join(sep, parts) ==
    IF parts = <<>> THEN <<>>
    ELSE IF Len(parts) = 1 THEN parts[1]
    ELSE parts[1] \o sep \o Join(sep, Tail(parts))

\* c in str
Contains(str, c) == \E k \in 1..Len(str) : str[k] = c

RECURSIVE Split(_, _)
\* str.split(c): always at least one piece
Split(str, c) ==
    IF ~Contains(str, c) THEN <<str>>
    ELSE LET k == CHOOSE k \in 1..Len(str) :
                      str[k] = c /\ \A j \in 1..(k - 1) : str[j] # c
         IN  <<SubSeq(str, 1, k - 1)>> \o Split(SubSeq(str, k + 1, Len(str)), c)

\* urllib.parse.quote of one character, safe='/': letters, digits and _.-~/
\* are kept, anything else is percent-encoded.
QuoteChar(c) ==
    CASE c = " " -> <<"%", "2", "0">>
      [] c = "," -> <<"%", "2", "C">>
      [] c = "?" -> <<"%", "3", "F">>
      [] c = "=" -> <<"%", "3", "D">>
      [] c = "&" -> <<"%", "2", "6">>
      [] c = "%" -> <<"%", "2", "5">>
      [] OTHER -> <<c>>

RECURSIVE quote(_)
quote(str) == IF str = <<>> THEN <<>> ELSE QuoteChar(Head(str)) \o quote(Tail(str))

\* map(quote, values)
QuoteAll(list) == [k \in 1..Len(list) |-> quote(list[k])]

\* '{}={}'.format(key, text)
KeyEquals(key, text) == key \o <<"=">> \o text

\* python truthiness of a value
Truthy(val) ==
    CASE val.t = "none" -> FALSE
      [] val.t = "int" -> val.i # 0
      [] val.t = "str" -> val.s # <<>>
      [] val.t = "list" -> val.l # <<>>

\* api.py:93-104: what one keyword argument appends to params
RenderParam(key, val) ==
    IF val.t = "str" THEN
        IF Contains(val.s, ",")
        THEN <<KeyEquals(key, Join(<<",">>, QuoteAll(Split(val.s, ","))))>>
        ELSE <<KeyEquals(key, quote(val.s))>>
    ELSE IF val.t = "list" THEN
        <<KeyEquals(key, Join(<<",">>, QuoteAll(val.l)))>>
    ELSE IF Truthy(val) THEN <<KeyEquals(key, Str(val))>>
    ELSE <<>>

RECURSIVE RenderParams(_)
\* api.py:91-104
RenderParams(kwargs) ==
    IF kwargs = <<>> THEN <<>>
    ELSE RenderParam(Head(kwargs).key, Head(kwargs).val) \o RenderParams(Tail(kwargs))

\* map(lambda x: str(x).strip('/'), args)
StripSlashes(args) == [k \in 1..Len(args) |-> Strip(Str(args[k]), "/")]

\* api.py:87-113.  tail_slash is "unset" when the keyword is not passed.
build_url(posargs, kwargs, tail_slash_kw) ==
    LET args == SelectSeq(posargs, LAMBDA a : a.t # "none")
        last == Str(args[Len(args)])
        tail_slash == IF tail_slash_kw = "unset" THEN last[Len(last)] = "/"
                      ELSE tail_slash_kw = "true"
        url == Join(<<"/">>, StripSlashes(args))
        params == RenderParams(kwargs)
    IN  IF Len(params) > 0
        THEN url \o (IF Contains(url, "?") THEN <<"&">> ELSE <<"/", "?">>)
                 \o Join(<<"&">>, params)
        ELSE IF ~Contains(url, "?") /\ tail_slash THEN url \o <<"/">>
        ELSE url

(***************************************************************************)
(* SpecUrl: _build_url called once on server and endpoint segments with up *)
(* to MaxParams keyword arguments.                                         *)
(***************************************************************************)
UrlArgs ==
    { <<PyStr(<<"h", "/">>), PyStr(<<"e">>)>>,
      <<PyStr(<<"h">>), PyStr(<<"/", "e", "/">>)>>,
      <<PyStr(<<"h">>), PyStr(<<"e", "?", "z", "=", "1">>)>>,
      <<PyStr(<<"h">>), PyStr(<<"e">>), PyInt(7)>>,
      <<PyStr(<<"h">>), PyNone, PyStr(<<"e", "/">>)>> }

UrlValues ==
    { PyNone, PyInt(0), PyInt(25), PyStr(<<>>), PyStr(<<"x">>),
      PyStr(<<"x", " ", "y", ",", "w">>), PyList(<<>>),
      PyList(<<<<"x">>, <<"y", ",">>>>) }

UrlKeys == <<<<"p">>, <<"q">>, <<"r">>, <<"s">>>>

UrlKwargs ==
    UNION {{[k \in 1..n |-> [key |-> UrlKeys[k], val |-> v[k]]] :
               v \in [1..n -> UrlValues]} : n \in 0..MaxParams}

InitUrl ==
    /\ files = <<>>
    /\ fsize = <<>>
    /\ groups = <<>>
    /\ splitDone = FALSE
    /\ status = None
    /\ trace = <<>>
    /\ urlIn \in [args : UrlArgs, kwargs : UrlKwargs,
                   tail_slash : {"unset", "true", "false"}]
    /\ urlOut = <<>>
    /\ urlDone = FALSE
    /\ ClientUnused

BuildUrlCall ==
    /\ ~urlDone
    /\ urlOut' = build_url(urlIn.args, urlIn.kwargs, urlIn.tail_slash)
    /\ urlDone' = TRUE
    /\ UNCHANGED <<urlIn, splitVars, statusVars, clientVars, bulkVars>>

NextUrl == BuildUrlCall

SpecUrl == InitUrl /\ [][NextUrl]_vars

\* sub occurs in str as a contiguous substring
IsSubstring(sub, str) ==
    \E k \in 0..(Len(str) - Len(sub)) : SubSeq(str, k + 1, k + Len(sub)) = sub

Falsy(val) == ~Truthy(val)

\* C7: a query parameter whose value is falsy (0, None, "", []) leaves no
\* 'key=' entry in the url, and when every parameter is falsy the url is the
\* one built without parameters.
C7_FalsyOmitted ==
    urlDone =>
        /\ \A k \in 1..Len(urlIn.kwargs) :
              Falsy(urlIn.kwargs[k].val)
                  => ~IsSubstring(urlIn.kwargs[k].key \o <<"=">>, urlOut)
        /\ (\A k \in 1..Len(urlIn.kwargs) : Falsy(urlIn.kwargs[k].val))
              => urlOut = build_url(urlIn.args, <<>>, urlIn.tail_slash)

(***************************************************************************)
(* BaseAPI: construction and login (api.py:43-58), the auth header         *)
(* (api.py:60-66) and get/post (api.py:71-75).                             *)
(***************************************************************************)
HTTP_OK == 200

\* What requests.post meets at login: no connection, or a response with a
\* status and a JSON body that may hold 'key'.
LoginOutcomes ==
    {[kind |-> "ConnectionError", status |-> 0, key |-> None]}
        \cup [kind : {"response"}, status : {HTTP_OK, 400}, key : {None, "t1"}]

\* resp.json()
Body(outcome) == [key |-> outcome.key]

LoginEffectNoRaise(outcome) ==
    [pc |-> "ready", token |-> outcome.key, error |-> <<>>]

\* api.py:45-58: the state __init__ leaves, for what the login request met.
LoginEffect(outcome) ==
    IF outcome.kind = "ConnectionError"
    THEN [pc |-> "ready", token |-> None, error |-> <<>>]
    ELSE IF outcome.status # HTTP_OK
    THEN [pc |-> "failed", token |-> None, error |-> <<Body(outcome)>>]
    ELSE [pc |-> "ready", token |-> Body(outcome).key, error |-> <<>>]

\* api.py:60-61
is_authenticated(tok) == tok # None

\* api.py:63-66: raises 'Not authenticated' or returns the header
auth_header(tok) ==
    IF ~is_authenticated(tok)
    THEN [raised |-> "Not authenticated", headers |-> <<>>]
    ELSE [raised |-> "none", headers |-> <<"Authorization", "Token", tok>>]

LoginRequest == [kind |-> "login", headers |-> <<>>, batch |-> 0]

AuthRequest(kind, headers, batch) ==
    [kind |-> kind, headers |-> headers, batch |-> batch]

CallRecord(op, raised) == [op |-> op, raised |-> raised]

\* BaseAPI.__init__ with _login
Construct(outcome) ==
    /\ clientPc = "new"
    /\ requests' = Append(requests, LoginRequest)
    /\ loginSeen' = <<outcome>>
    /\ clientPc' = LoginEffect(outcome).pc
    /\ token' = LoginEffect(outcome).token
    /\ ctorError' = LoginEffect(outcome).error
    /\ UNCHANGED <<callLog, splitVars, statusVars, urlVars, bulkVars>>

\* self.get(...) / self.post(...) as made by the API operations built on them
\* (list_datasets, create_dataset, ...): the header is computed first.
ClientCall(op) ==
    /\ clientPc = "ready"
    /\ bulkPc # "running"
    /\ Len(SelectSeq(callLog, LAMBDA c : c.op \in {"get", "post"})) < MaxDirect
    /\ LET h == auth_header(token)
       IN  /\ callLog' = Append(callLog, CallRecord(op, h.raised))
           /\ requests' = IF h.raised # "none" THEN requests
                          ELSE Append(requests, AuthRequest(op, h.headers, 0))
    /\ UNCHANGED <<clientPc, token, ctorError, loginSeen,
                   splitVars, statusVars, urlVars, bulkVars>>

(***************************************************************************)
(* API.bulk_upload_files (api.py:210-233) and upload_files (api.py:173-207)*)
(* run by ThreadPoolExecutor(1).map: every batch is submitted when map is  *)
(* called, the pool's threads take the submitted tasks in order, and an    *)
(* exception of a task is kept in its future.                              *)
(***************************************************************************)
BulkSizes == {0, bulk_size \div 2, bulk_size}

PoolOfTwo == 1 + 1

\* api.py:224  ThreadPoolExecutor(1)
max_workers == 1

Statuses == {HTTP_OK, 500}

Task(pc, resp, raised) == [pc |-> pc, resp |-> resp, raised |-> raised]

Running == {i \in 1..Len(tasks) : tasks[i].pc \in {"responded", "updated"}}

Queued == {i \in 1..Len(tasks) : tasks[i].pc = "queued"}

NextQueuedLast == CHOOSE i \in Queued : \A j \in Queued : j <= i

\* the executor's work queue is first in, first out
NextQueued == CHOOSE i \in Queued : \A j \in Queued : i <= j

\* api.py:221-230: resolve, split, create the status, submit every batch
BulkStart(fs, sz) ==
    /\ clientPc = "ready"
    /\ bulkPc = "idle"
    /\ files' = fs
    /\ fsize' = sz
    /\ groups' = split_files_by_size(fs)'    \* sizes read from the new fsize
    /\ status' = UploadStatusNew(Len(fs))
    /\ trace' = <<>>
    /\ tasks' = [i \in 1..Len(groups') |-> Task("queued", 0, "none")]
    /\ bulkPc' = "running"
    /\ UNCHANGED <<splitDone, completed, resultsIter, urlVars, clientVars>>

\* A pool thread takes the next task and runs upload_files up to the response
\* of self.post (api.py:183-200); without a token _auth_header raises and the
\* task ends with the exception.
TaskPost(i, resp) ==
    /\ bulkPc = "running"
    /\ Queued # {}
    /\ i = NextQueued
    /\ Cardinality(Running) < max_workers
    /\ LET h == auth_header(token)
       IN  IF h.raised # "none"
           THEN /\ tasks' = [tasks EXCEPT ![i] = Task("done", 0, h.raised)]
                /\ completed' = Append(completed, i)
                /\ UNCHANGED requests
           ELSE /\ tasks' = [tasks EXCEPT ![i] = Task("responded", resp, "none")]
                /\ requests' = Append(requests, AuthRequest("upload", h.headers, i))
                /\ UNCHANGED completed
    /\ UNCHANGED <<clientPc, token, ctorError, loginSeen, callLog, bulkPc,
                   resultsIter, splitVars, statusVars, urlVars>>

\* api.py:205  status.update(len(files))
TaskUpdate(i) ==
    /\ bulkPc = "running"
    /\ i \in 1..Len(tasks)
    /\ tasks[i].pc = "responded"
    /\ status' = update(status, Len(groups[i]))
    /\ trace' = Append(trace, UpdateEvent(i, Len(groups[i])))
    /\ tasks' = [tasks EXCEPT ![i].pc = "updated"]
    /\ UNCHANGED <<bulkPc, completed, resultsIter, splitVars, urlVars, clientVars>>

\* api.py:206-207  status.progress(); return r.json()
TaskProgress(i) ==
    /\ bulkPc = "running"
    /\ i \in 1..Len(tasks)
    /\ tasks[i].pc = "updated"
    /\ status' = ProgressStore(status, Percentage(status))
    /\ trace' = Append(trace, ProgressEvent(i, status))
    /\ tasks' = [tasks EXCEPT ![i].pc = "done"]
    /\ completed' = Append(completed, i)
    /\ UNCHANGED <<bulkPc, resultsIter, splitVars, urlVars, clientVars>>

\* api.py:224-233: leaving the with block waits for every task; the iterator
\* of map is returned, no exception of a task is raised here.
BulkReturn ==
    /\ bulkPc = "running"
    /\ \A i \in 1..Len(tasks) : tasks[i].pc = "done"
    /\ bulkPc' = "returned"
    /\ callLog' = Append(callLog, CallRecord("bulk_upload_files", "none"))
    /\ UNCHANGED <<clientPc, token, ctorError, loginSeen, requests, tasks,
                   completed, resultsIter, splitVars, statusVars, urlVars>>

\* The caller reads the next result of the iterator map returned: the result
\* of the batch's task, or the exception the task ended with.
ResultsNext ==
    /\ bulkPc = "returned"
    /\ resultsIter.raised = "none"
    /\ resultsIter.pos < Len(tasks)
    /\ resultsIter' = [pos |-> resultsIter.pos + 1,
                       raised |-> tasks[resultsIter.pos + 1].raised]
    /\ UNCHANGED <<bulkPc, tasks, completed, splitVars, statusVars, urlVars,
                   clientVars>>

Init ==
    /\ files = <<>>
    /\ fsize = <<>>
    /\ groups = <<>>
    /\ splitDone = FALSE
    /\ status = UploadStatusNew(0)
    /\ trace = <<>>
    /\ urlIn = None
    /\ urlOut = <<>>
    /\ urlDone = FALSE
    /\ ClientUnused

Next ==
    \/ \E outcome \in LoginOutcomes : Construct(outcome)
    \/ \E op \in {"get", "post"} : ClientCall(op)
    \/ \E fs \in FileLists : \E sz \in [1..Len(fs) -> BulkSizes] : BulkStart(fs, sz)
    \/ \E i \in 1..Len(tasks) : \E resp \in Statuses : TaskPost(i, resp)
    \/ \E i \in 1..Len(tasks) : TaskUpdate(i)
    \/ \E i \in 1..Len(tasks) : TaskProgress(i)
    \/ BulkReturn
    \/ ResultsNext

Spec == Init /\ [][Next]_vars

Uploads == SelectSeq(requests, LAMBDA r : r.kind = "upload")

Logins == {k \in 1..Len(requests) : requests[k].kind = "login"}

\* C4: without a token every authenticated call (get, post, and
\* bulk_upload_files of at least one file) ends with 'Not authenticated' and no
\* request other than the login is ever issued; every request issued by
\* get/post carries 'Authorization: Token <token>' with the stored token.
C4_FailClosed ==
    /\ token = None =>
          /\ \A k \in 1..Len(callLog) :
                (callLog[k].op = "bulk_upload_files" => Len(files) > 0)
                    => callLog[k].raised = "Not authenticated"
          /\ \A k \in 1..Len(requests) : requests[k].kind = "login"
    /\ \A k \in 1..Len(requests) :
          requests[k].kind # "login"
              => requests[k].headers = <<"Authorization", "Token", token>>

\* C5: construction makes exactly one login request and what that request met
\* determines the token: no connection, __init__ returns and the token is
\* absent; a status other than OK, __init__ raises the response body and the
\* token is absent; OK, the token is the body's 'key'.  Once constructed, no
\* step changes the token.
C5_LoginDeterminesToken ==
    /\ [](/\ clientPc = "new" => (Logins = {} /\ token = None)
          /\ clientPc # "new" =>
                /\ Cardinality(Logins) = 1
                /\ requests[1].kind = "login"
                /\ LET met == loginSeen[1]
                   IN  /\ met.kind = "ConnectionError" =>
                              (clientPc = "ready" /\ ctorError = <<>> /\ token = None)
                       /\ (met.kind = "response" /\ met.status # HTTP_OK) =>
                              /\ clientPc = "failed"
                              /\ ctorError = <<[key |-> met.key]>>
                              /\ token = None
                       /\ (met.kind = "response" /\ met.status = HTTP_OK) =>
                              (clientPc = "ready" /\ ctorError = <<>> /\ token = met.key))
    /\ [][clientPc # "new" => token' = token]_vars

C5_Witness ==
    /\ clientPc = "ready"
    /\ token = "t1"
    /\ bulkPc = "returned"
    /\ Len(requests) >= 4
    /\ \E k \in 1..Len(callLog) : callLog[k].op = "post"

\* C6: with a token, the upload requests issued are the batches 1, 2, ... in
\* partition order, one request each: a batch's request has been issued exactly
\* when its task has left the queue, and when bulk_upload_files returns every
\* batch has been posted once, whatever status the earlier batches met.
C6_EachBatchPostedOnce ==
    (bulkPc # "idle" /\ token # None) =>
        /\ Len(Uploads) <= Len(groups)
        /\ \A k \in 1..Len(Uploads) : Uploads[k].batch = k
        /\ \A i \in 1..Len(tasks) : (tasks[i].pc # "queued") <=> (i <= Len(Uploads))
        /\ bulkPc = "returned" => Len(Uploads) = Len(groups)

C6_Witness ==
    /\ bulkPc = "returned"
    /\ token # None
    /\ Len(groups) >= 3
    /\ tasks[1].resp # HTTP_OK
    /\ tasks[2].resp # HTTP_OK
    /\ Len(Uploads) = Len(groups)

RECURSIVE CountedFiles(_)
\* the files of the batches among the first i whose task has called update
CountedFiles(i) ==
    IF i = 0 THEN 0
    ELSE CountedFiles(i - 1)
           + (IF tasks[i].pc \in {"updated", "done"} THEN Len(groups[i]) ELSE 0)

\* C8: with a token, during bulk_upload_files current_count never decreases and
\* never exceeds total_count, it is the number of files of the batches whose
\* response has been handled (whatever the response's status), and it equals
\* total_count, the number of resolved files, when the call returns.
C8_ProgressCount ==
    /\ []((bulkPc # "idle" /\ token # None) =>
            /\ status.total_count = Len(files)
            /\ status.current_count <= status.total_count
            /\ status.current_count = CountedFiles(Len(tasks))
            /\ bulkPc = "returned" => status.current_count = status.total_count)
    /\ [][status.current_count <= status'.current_count]_vars
    /\ [][\A i \in 1..Len(tasks) :
             (tasks[i].pc = "responded" /\ tasks'[i].pc = "updated")
                 => status'.current_count = status.current_count + Len(groups[i])]_vars

C8_Witness ==
    /\ bulkPc = "returned"
    /\ token # None
    /\ Len(groups) >= 2
    /\ tasks[1].resp # HTTP_OK
    /\ tasks[2].resp = HTTP_OK
    /\ status.current_count = status.total_count
    /\ status.total_count >= 3

\* C10: at most one upload task executes at a time, so the calls on the shared
\* UploadStatus are update, progress pairs of one batch after the other, and
\* the batches end in the order they were submitted.
C10_Serialized ==
    bulkPc # "idle" =>
        /\ Cardinality(Running) <= 1
        /\ \A k \in 1..Len(trace) :
              /\ (k % 2 = 1) => trace[k].op = "update"
              /\ (k % 2 = 0) => /\ trace[k].op = "progress"
                                /\ trace[k].task = trace[k - 1].task
        /\ \A k \in 1..Len(completed) : completed[k] = k

C10_Witness ==
    /\ bulkPc = "returned"
    /\ Len(groups) >= 3
    /\ Len(trace) = 2 * Len(groups)
    /\ Len(completed) = Len(groups)

=============================================================================
